---- MODULE Spec2Model ----
(***************************************************************************)
(* Model of apps/sim/app/api/workflows/[id]/execute/route.ts: the          *)
(* executeWorkflow orchestration (admission registry, usage gate, workflow *)
(* load, environment-variable templating, engine invocation, counters,     *)
(* persistence, release) and the GET/POST error mapping.                   *)
(*                                                                         *)
(* Each HTTP request is one call of executeWorkflow.  A call suspends at   *)
(* every awaited external call; the code between two awaits runs without   *)
(* interleaving (single JavaScript thread), so one action models the code  *)
(* from the resumption of one await to the start of the next.              *)
(*                                                                         *)
(* Strings are sequences of tokens.  A token is either a piece of plain    *)
(* text or a whole placeholder "{{name}}"; ids are sequences of            *)
(* characters.                                                             *)
(***************************************************************************)
EXTENDS Integers, Sequences, FiniteSets, TLC

VARIABLES
    runningExecutions,  \* the process-wide Set<string> of execution keys
    exec,               \* per call: position, arguments, locals, history
    runCounts,          \* external store: run counter per workflow id
    totalApiCalls       \* external store: userStats.totalApiCalls per user

vars == <<runningExecutions, exec, runCounts, totalApiCalls>>

----------------------------------------------------------------------------
(* Bounds and program constants *)

NumCalls == 2

Calls == 1..NumCalls

\* crypto.randomUUID().slice(0, 8): a request id is 8 hexadecimal characters
RequestIdLen == 8

\* UsageLimitError.statusCode
PaymentRequired == 402

\* status of the generic EXECUTION_ERROR response
InternalError == 500

----------------------------------------------------------------------------
(* Errors *)

NoError == [name |-> "none", message |-> <<>>, statusCode |-> 0]

Error(message) == [name |-> "Error", message |-> message, statusCode |-> 0]

UsageLimitError(message) ==
    [name |-> "UsageLimitError", message |-> message, statusCode |-> PaymentRequired]

----------------------------------------------------------------------------
(* Execution key *)

ExecutionKeyNoRequest(workflowId, requestId) == workflowId \o <<":">>

ExecutionKey(workflowId, requestId) == workflowId \o <<":">> \o requestId

\* the finally block: runningExecutions.delete(executionKey)
FinallyLeak(executionKey, running) == running

Finally(executionKey, running) == running \ {executionKey}

----------------------------------------------------------------------------
(* Values, placeholders, decryption *)

Names == {"A", "B"}

\* Object.entries order of the variables record
VarOrder == <<"A", "B">>

Placeholder(n) == IF n = "A" THEN "{{A}}" ELSE "{{B}}"

Placeholders == {Placeholder(n) : n \in Names}

\* match.slice(2, -2)
VarName(match) == CHOOSE n \in Names : Placeholder(n) = match

Str(toks) == [isString |-> TRUE, toks |-> toks]

\* a sub-block value that is not a string (number, object, null)
NonString == [isString |-> FALSE, toks |-> <<>>]

Undefined == "<undefined>"

\* decryptSecret: plaintext of a ciphertext, or a fault
Plaintext(ct) ==
    CASE ct = "encX" -> <<"x">>
      [] ct = "encY" -> <<"y">>
      [] ct = "encRefB" -> <<"{{B}}">>
      [] ct = "encAmp" -> <<"$&">>
      [] OTHER -> <<>>

decryptSecret(ct) ==
    IF ct \in {"encX", "encY", "encRefB", "encAmp"}
    THEN [ok |-> TRUE, decrypted |-> Plaintext(ct)]
    ELSE [ok |-> FALSE, decrypted |-> <<>>]

IsPlaceholder(tok) == tok \in Placeholders

\* value.includes('{{') && value.includes('}}') and value.match(/{{([^}]+)}}/g)
Matches(value) ==
    IF value.isString THEN SelectSeq(value.toks, IsPlaceholder) ELSE <<>>

RECURSIVE IndexOf(_, _, _)
IndexOf(toks, tok, i) ==
    IF i > Len(toks) THEN 0
    ELSE IF toks[i] = tok THEN i
    ELSE IndexOf(toks, tok, i + 1)

\* the replacement string of String.prototype.replace: "$&" stands for the match
Expand(decrypted, match) ==
    [i \in 1..Len(decrypted) |-> IF decrypted[i] = "$&" THEN match ELSE decrypted[i]]

\* (value as string).replace(match, decrypted): the first occurrence only
Replace(toks, match, decrypted) ==
    LET i == IndexOf(toks, match, 1) IN
    IF i = 0 THEN toks
    ELSE SubSeq(toks, 1, i - 1) \o Expand(decrypted, match) \o SubSeq(toks, i + 1, Len(toks))

\* Object.entries(variables)
EnvEntries(variables) == SelectSeq(VarOrder, LAMBDA n : variables[n] # Undefined)

----------------------------------------------------------------------------
(* Inputs *)

\* a request id: RequestIdLen copies of one hexadecimal character
RequestId(ch) == [i \in 1..RequestIdLen |-> ch]

\* workflow.userId
UserOf(workflowId) == "u1"

Users == {"u1"}

Absent == [present |-> FALSE, blocks |-> <<>>]

Present(blocks) == [present |-> TRUE, blocks |-> blocks]

\* workflow.variables as stored: absent, an object, or a JSON string
NoVariables == [kind |-> "absent", text |-> "", keys |-> {}]

ObjectVariables == [kind |-> "object", text |-> "", keys |-> {"k"}]

StringVariables(text) == [kind |-> "string", text |-> text, keys |-> {}]

\* JSON.parse of a workflow.variables string: ok is FALSE where it throws
JSONParse(text) ==
    IF text = "{\"k\":1}" THEN [ok |-> TRUE, isNull |-> FALSE, keys |-> {"k"}]
    ELSE IF text = "{}" THEN [ok |-> TRUE, isNull |-> FALSE, keys |-> {}]
    ELSE IF text = "null" THEN [ok |-> TRUE, isNull |-> TRUE, keys |-> {}]
    ELSE [ok |-> FALSE, isNull |-> FALSE, keys |-> {}]

\* values of the local workflowVariables: an object with these keys, or null
Mapping(keys) == [isNull |-> FALSE, keys |-> keys]

Null == [isNull |-> TRUE, keys |-> {}]

\* blocks (after mergeSubblockState): a sequence of blocks, each the sequence
\* of its sub-block values in Object.entries order
PlainBlocks == << <<Str(<<"t">>)>> >>

TemplatedBlocks == << <<Str(<<"t">>), NonString>>, <<Str(<<"{{A}}", "and", "{{B}}">>)>> >>

Vars(a, b) == [n \in Names |-> IF n = "A" THEN a ELSE b]

WorkflowIds == {<<"w", "1">>, <<"w", "2">>}

RequestIds == {RequestId("a"), RequestId("b")}

Inputs ==
    [workflowIds |-> WorkflowIds,
     requestIds |-> RequestIds,
     blockSets |-> {PlainBlocks, TemplatedBlocks},
     varSets |-> {Vars("encX", "encY"), Vars("encX", Undefined), Vars("encX", "bad")},
     workflowVariables |-> {NoVariables}]

----------------------------------------------------------------------------
(* Per-call state *)

NoOutcome == [kind |-> "none", success |-> FALSE, error |-> NoError]

Returned(success) == [kind |-> "returned", success |-> success, error |-> NoError]

Threw(error) == [kind |-> "threw", success |-> FALSE, error |-> error]

NoEngineInput ==
    [invoked |-> FALSE, blockStates |-> <<>>, envVars |-> <<>>,
     workflowVariables |-> Mapping({}),
     rawVariables |-> NoVariables]

IdleExec ==
    [pc |-> "idle",
     workflowId |-> <<>>,
     requestId |-> <<>>,
     deployedState |-> Absent,
     mergedStates |-> <<>>,
     variables |-> [n \in Names |-> Undefined],
     b |-> 1,
     f |-> 1,
     entered |-> FALSE,
     value |-> NonString,
     matches |-> <<>>,
     subAcc |-> <<>>,
     acc |-> <<>>,
     envIdx |-> 1,
     decryptedEnvVars |-> <<>>,
     engineInput |-> NoEngineInput,
     caught |-> NoError,
     outcome |-> NoOutcome,
     trace |-> <<>>]

KeyOf(s) == ExecutionKey(s.workflowId, s.requestId)

Log(s, events) == [s EXCEPT !.trace = @ \o events]

Events(s) == {s.trace[i] : i \in 1..Len(s.trace)}

Has(s, event) == event \in Events(s)

Count(s, event) == Cardinality({i \in 1..Len(s.trace) : s.trace[i] = event})

\* position of the first occurrence of an event in a call's history, 0 if none
First(s, event) == IndexOf(s.trace, event, 1)

\* the cursors and accumulators of the two reduces go out of scope
DropLocals(s) ==
    [s EXCEPT !.b = 1, !.f = 1, !.entered = FALSE, !.value = NonString,
              !.matches = <<>>, !.subAcc = <<>>, !.acc = <<>>, !.envIdx = 1,
              !.decryptedEnvVars = <<>>]

\* an error thrown outside the try block reaches the caller directly
ThrowToCaller(s, error, event) ==
    [Log(s, <<event>>) EXCEPT !.pc = "done", !.outcome = Threw(error)]

\* catch (error): logger.error, then await persistExecutionError(...)
CatchSkipPersist(s, error, event) ==
    [DropLocals(Log(s, <<event>>)) EXCEPT !.pc = "catch", !.caught = error]

Catch(s, error, event) ==
    [DropLocals(Log(s, <<event, "persistError">>)) EXCEPT !.pc = "catch", !.caught = error]

----------------------------------------------------------------------------
(* Template resolution: the nested reduce over blocks and sub-blocks *)

\* Runs the reduce up to its next decryptSecret call: leaves sub-blocks
\* without pending matches (subAcc[key] = value), closes finished blocks
\* (acc[id] = ...), and stops on a match to process or after the last block.
RECURSIVE Settle(_)
Settle(s) ==
    IF s.b > Len(s.mergedStates) THEN s
    ELSE IF s.f > Len(s.mergedStates[s.b])
    THEN Settle([s EXCEPT !.acc = Append(@, s.subAcc), !.subAcc = <<>>,
                          !.b = @ + 1, !.f = 1])
    ELSE IF ~s.entered
    THEN Settle([s EXCEPT !.entered = TRUE,
                          !.value = s.mergedStates[s.b][s.f],
                          !.matches = Matches(s.mergedStates[s.b][s.f])])
    ELSE IF s.matches # <<>> THEN s
    ELSE Settle([s EXCEPT !.subAcc = Append(@, s.value), !.f = @ + 1,
                          !.entered = FALSE])

\* let workflowVariables = {}; if (workflow.variables) { try { ... } catch { } }
\* The assignment of JSON.parse's result precedes Object.keys(workflowVariables)
\* in the try block, so a parsed null stays assigned when Object.keys throws.
WorkflowVariablesOfKeepRaw(raw) ==
    IF raw.kind = "absent" THEN Mapping({})
    ELSE IF raw.kind = "string"
    THEN IF raw.text = "" THEN Mapping({})
         ELSE IF ~JSONParse(raw.text).ok THEN Mapping({raw.text})
         ELSE IF JSONParse(raw.text).isNull THEN Null
         ELSE Mapping(JSONParse(raw.text).keys)
    ELSE Mapping(raw.keys)

WorkflowVariablesOf(raw) ==
    IF raw.kind = "absent" THEN Mapping({})
    ELSE IF raw.kind = "string"
    THEN IF raw.text = "" THEN Mapping({})
         ELSE IF ~JSONParse(raw.text).ok THEN Mapping({})
         ELSE IF JSONParse(raw.text).isNull THEN Null
         ELSE Mapping(JSONParse(raw.text).keys)
    ELSE Mapping(raw.keys)

\* new Executor(serializedWorkflow, processedBlockStates, decryptedEnvVars,
\* processedInput, workflowVariables) and the call of executor.execute
InvokeEngine(s, rawVariables) ==
    [DropLocals(Log(s, <<"execute">>)) EXCEPT
        !.pc = "execute",
        !.engineInput = [invoked |-> TRUE,
                         blockStates |-> s.acc,
                         envVars |-> s.decryptedEnvVars,
                         workflowVariables |-> WorkflowVariablesOf(rawVariables),
                         rawVariables |-> rawVariables]]

\* where the try block suspends next after the environment record is parsed
ProceedSkipEnvVars(s, rawVariables) ==
    IF s.b <= Len(s.mergedStates) THEN [s EXCEPT !.pc = "resolve"]
    ELSE InvokeEngine(s, rawVariables)

Proceed(s, rawVariables) ==
    IF s.b <= Len(s.mergedStates) THEN [s EXCEPT !.pc = "resolve"]
    ELSE IF s.envIdx <= Len(EnvEntries(s.variables)) THEN [s EXCEPT !.pc = "envvars"]
    ELSE InvokeEngine(s, rawVariables)

\* if (!encryptedValue)
NotFound(encryptedValue) == encryptedValue = Undefined \/ encryptedValue = ""

\* one iteration of "for (const match of matches)"
ResolveMatchIgnoreMissing(s) ==
    LET match == Head(s.matches)
        varName == VarName(match)
        encryptedValue == s.variables[varName]
        d == decryptSecret(encryptedValue)
    IN  IF NotFound(encryptedValue) \/ ~d.ok
        THEN [ok |-> TRUE, error |-> NoError, event |-> "skip",
              next |-> [s EXCEPT !.matches = Tail(@)]]
        ELSE [ok |-> TRUE, error |-> NoError, event |-> "decrypt.ok",
              next |-> [Log(s, <<"decrypt", "replace">>) EXCEPT
                           !.value = Str(Replace(s.value.toks, match, d.decrypted)),
                           !.matches = Tail(@)]]

ResolveMatch(s) ==
    LET match == Head(s.matches)
        varName == VarName(match)
        encryptedValue == s.variables[varName]
        d == decryptSecret(encryptedValue)
    IN  IF NotFound(encryptedValue)
        THEN [ok |-> FALSE, event |-> "resolve.notFound", next |-> s,
              error |-> Error(<<"Environment variable was not found", varName>>)]
        ELSE IF ~d.ok
        THEN [ok |-> FALSE, event |-> "decrypt.fault", next |-> Log(s, <<"decrypt">>),
              error |-> Error(<<"Failed to decrypt environment variable", varName>>)]
        ELSE [ok |-> TRUE, error |-> NoError, event |-> "decrypt.ok",
              next |-> [Log(s, <<"decrypt", "replace">>) EXCEPT
                           !.value = Str(Replace(s.value.toks, match, d.decrypted)),
                           !.matches = Tail(@)]]

\* one iteration of "for (const [key, encryptedValue] of Object.entries(variables))"
DecryptEntrySkipFailed(s) ==
    LET key == EnvEntries(s.variables)[s.envIdx]
        d == decryptSecret(s.variables[key])
    IN  IF ~d.ok
        THEN [ok |-> TRUE, error |-> NoError, event |-> "skip",
              next |-> [Log(s, <<"decrypt">>) EXCEPT !.envIdx = @ + 1]]
        ELSE [ok |-> TRUE, error |-> NoError, event |-> "decrypt.ok",
              next |-> [Log(s, <<"decrypt">>) EXCEPT
                           !.decryptedEnvVars = Append(@, [key |-> key, value |-> d.decrypted]),
                           !.envIdx = @ + 1]]

DecryptEntry(s) ==
    LET key == EnvEntries(s.variables)[s.envIdx]
        d == decryptSecret(s.variables[key])
    IN  IF ~d.ok
        THEN [ok |-> FALSE, event |-> "decrypt.fault", next |-> Log(s, <<"decrypt">>),
              error |-> Error(<<"Failed to decrypt environment variable", key>>)]
        ELSE [ok |-> TRUE, error |-> NoError, event |-> "decrypt.ok",
              next |-> [Log(s, <<"decrypt">>) EXCEPT
                           !.decryptedEnvVars = Append(@, [key |-> key, value |-> d.decrypted]),
                           !.envIdx = @ + 1]]

\* 'stream' in result && 'execution' in result ? result.execution : result
ExecutionResultOf(result) ==
    IF result.hasStream /\ result.hasExecution
    THEN [success |-> result.executionSuccess]
    ELSE [success |-> result.success]

EngineResults ==
    {[hasStream |-> FALSE, hasExecution |-> FALSE, success |-> ok, executionSuccess |-> FALSE]
        : ok \in BOOLEAN}
    \cup
    {[hasStream |-> TRUE, hasExecution |-> TRUE, success |-> FALSE, executionSuccess |-> ok]
        : ok \in BOOLEAN}

\* if (usageCheck.isExceeded) throw new UsageLimitError(...)
UsageGateOpen(usageCheck) == FALSE

UsageGate(usageCheck) == usageCheck.isExceeded

----------------------------------------------------------------------------
(* Actions: executeWorkflow, one action per resumption *)

Init ==
    /\ runningExecutions = {}
    /\ exec = [c \in Calls |-> IdleExec]
    /\ runCounts = [w \in WorkflowIds |-> 0]
    /\ totalApiCalls = [u \in Users |-> 0]

\* lines 48-63: a request arrives; the registry check; the usage lookup starts
StartInsideTry(c, inp) ==
    /\ exec[c].pc = "idle"
    /\ \E workflowId \in inp.workflowIds, requestId \in inp.requestIds :
        LET s == [exec[c] EXCEPT !.workflowId = workflowId, !.requestId = requestId] IN
        IF ExecutionKey(workflowId, requestId) \in runningExecutions
        THEN /\ exec' = [exec EXCEPT ![c] =
                    ThrowToCaller(Log(s, <<"has">>),
                                  Error(<<"Execution is already running">>), "has.running")]
             /\ runningExecutions' =
                    Finally(ExecutionKey(workflowId, requestId), runningExecutions)
        ELSE /\ exec' = [exec EXCEPT ![c] = [Log(s, <<"has", "usage">>) EXCEPT !.pc = "usage"]]
             /\ UNCHANGED runningExecutions
    /\ UNCHANGED <<runCounts, totalApiCalls>>

Start(c, inp) ==
    /\ exec[c].pc = "idle"
    /\ \E workflowId \in inp.workflowIds, requestId \in inp.requestIds :
        LET s == [exec[c] EXCEPT !.workflowId = workflowId, !.requestId = requestId] IN
        exec' = [exec EXCEPT ![c] =
            IF ExecutionKey(workflowId, requestId) \in runningExecutions
            THEN ThrowToCaller(Log(s, <<"has">>),
                               Error(<<"Execution is already running">>), "has.running")
            ELSE [Log(s, <<"has", "usage">>) EXCEPT !.pc = "usage"]]
    /\ UNCHANGED <<runningExecutions, runCounts, totalApiCalls>>

\* lines 63-93: the usage lookup returns; the key is inserted; the load starts
UsageReturn(c) ==
    /\ exec[c].pc = "usage"
    /\ \/ /\ exec' = [exec EXCEPT ![c] =
                ThrowToCaller(@, Error(<<"usage lookup failed">>), "usage.fault")]
          /\ UNCHANGED runningExecutions
       \/ \E usageCheck \in [isExceeded : BOOLEAN] :
            IF UsageGate(usageCheck)
            THEN /\ exec' = [exec EXCEPT ![c] =
                        ThrowToCaller(Log(@, <<IF usageCheck.isExceeded
                                               THEN "usage.exceeded" ELSE "usage.ok">>),
                                      UsageLimitError(<<"Usage limit exceeded">>),
                                      "usage.throw")]
                 /\ UNCHANGED runningExecutions
            ELSE /\ runningExecutions' = runningExecutions \cup {KeyOf(exec[c])}
                 /\ exec' = [exec EXCEPT ![c] =
                        [Log(@, <<IF usageCheck.isExceeded
                                  THEN "usage.exceeded" ELSE "usage.ok", "add", "load">>)
                            EXCEPT !.pc = "load"]]
    /\ UNCHANGED <<runCounts, totalApiCalls>>

\* lines 93-128: the load returns; normalized data or the deployed state is
\* taken; the environment record fetch starts.  workflow.deployedState is
\* read only when there is no normalized data.
LoadReturnNoCheck(c, inp) ==
    /\ exec[c].pc = "load"
    /\ \/ exec' = [exec EXCEPT ![c] = Catch(@, Error(<<"load failed">>), "load.fault")]
       \/ \E normalizedData \in {Absent} \cup {Present(b) : b \in inp.blockSets},
             deployedState \in {Absent} \cup {Present(b) : b \in inp.blockSets} :
            exec' = [exec EXCEPT ![c] =
                IF normalizedData.present
                THEN [Log(@, <<"load.normalized", "env">>) EXCEPT
                         !.pc = "env", !.mergedStates = normalizedData.blocks]
                ELSE [Log(@, <<"load.deployed", "env">>) EXCEPT
                         !.pc = "env", !.deployedState = deployedState,
                         !.mergedStates = deployedState.blocks]]
    /\ UNCHANGED <<runningExecutions, runCounts, totalApiCalls>>

LoadReturn(c, inp) ==
    /\ exec[c].pc = "load"
    /\ \/ exec' = [exec EXCEPT ![c] = Catch(@, Error(<<"load failed">>), "load.fault")]
       \/ \E normalizedData \in {Absent} \cup {Present(b) : b \in inp.blockSets},
             deployedState \in {Absent} \cup {Present(b) : b \in inp.blockSets} :
            exec' = [exec EXCEPT ![c] =
                IF normalizedData.present
                THEN [Log(@, <<"load.normalized", "env">>) EXCEPT
                         !.pc = "env", !.mergedStates = normalizedData.blocks]
                ELSE IF ~deployedState.present
                THEN Catch([@ EXCEPT !.deployedState = deployedState],
                           Error(<<"no deployed state and no normalized data">>),
                           "load.none")
                ELSE [Log(@, <<"load.deployed", "env">>) EXCEPT
                         !.pc = "env", !.deployedState = deployedState,
                         !.mergedStates = deployedState.blocks]]
    /\ UNCHANGED <<runningExecutions, runCounts, totalApiCalls>>

\* lines 124-184: the environment record arrives and is validated; the
\* resolution runs up to its first decryptSecret call
EnvReturn(c, inp) ==
    /\ exec[c].pc = "env"
    /\ \/ exec' = [exec EXCEPT ![c] = Catch(@, Error(<<"environment fetch failed">>), "env.fault")]
       \/ exec' = [exec EXCEPT ![c] = Catch(@, Error(<<"invalid environment record">>), "env.invalid")]
       \/ \E variables \in inp.varSets, rawVariables \in inp.workflowVariables :
            exec' = [exec EXCEPT ![c] =
                Proceed(Settle([Log(@, <<"env.ok">>) EXCEPT !.variables = variables]),
                        rawVariables)]
    /\ UNCHANGED <<runningExecutions, runCounts, totalApiCalls>>

\* lines 153-172: decryptSecret returns for one match of one sub-block
ResolveStep(c, inp) ==
    /\ exec[c].pc = "resolve"
    /\ LET r == ResolveMatch(exec[c]) IN
       \E rawVariables \in inp.workflowVariables :
        exec' = [exec EXCEPT ![c] =
            IF r.ok THEN Proceed(Settle(r.next), rawVariables)
            ELSE Catch(r.next, r.error, r.event)]
    /\ UNCHANGED <<runningExecutions, runCounts, totalApiCalls>>

\* lines 186-263: decryptSecret returns for one entry of the variables record;
\* after the last entry the engine is invoked
DecryptAllStep(c, inp) ==
    /\ exec[c].pc = "envvars"
    /\ LET r == DecryptEntry(exec[c]) IN
       \E rawVariables \in inp.workflowVariables :
        exec' = [exec EXCEPT ![c] =
            IF r.ok THEN Proceed(r.next, rawVariables)
            ELSE Catch(r.next, r.error, r.event)]
    /\ UNCHANGED <<runningExecutions, runCounts, totalApiCalls>>

\* lines 263-276 and 288-299: the engine returns or throws
ExecuteReturnRetry(c) ==
    /\ exec[c].pc = "execute"
    /\ \/ exec' = [exec EXCEPT ![c] =
            IF Count(@, "execute") = 1
            THEN Log(@, <<"execute.fault", "execute">>)
            ELSE Catch(@, Error(<<"engine fault">>), "execute.fault")]
       \/ \E result \in EngineResults :
            exec' = [exec EXCEPT ![c] =
                IF ExecutionResultOf(result).success
                THEN [Log(@, <<"execute.success", "runCount">>) EXCEPT !.pc = "runCount"]
                ELSE [Log(@, <<"execute.failure", "buildTraceSpans", "persistLogs">>) EXCEPT
                         !.pc = "persistLogs"]]
    /\ UNCHANGED <<runningExecutions, runCounts, totalApiCalls>>

ExecuteReturn(c) ==
    /\ exec[c].pc = "execute"
    /\ \/ exec' = [exec EXCEPT ![c] = Catch(@, Error(<<"engine fault">>), "execute.fault")]
       \/ \E result \in EngineResults :
            exec' = [exec EXCEPT ![c] =
                IF ExecutionResultOf(result).success
                THEN [Log(@, <<"execute.success", "runCount">>) EXCEPT !.pc = "runCount"]
                ELSE [Log(@, <<"execute.failure", "buildTraceSpans", "persistLogs">>) EXCEPT
                         !.pc = "persistLogs"]]
    /\ UNCHANGED <<runningExecutions, runCounts, totalApiCalls>>

\* lines 276-285: updateWorkflowRunCounts returns or throws
RunCountReturn(c) ==
    /\ exec[c].pc = "runCount"
    /\ \/ /\ exec' = [exec EXCEPT ![c] = Catch(@, Error(<<"run count update failed">>), "runCount.fault")]
          /\ UNCHANGED runCounts
       \/ /\ runCounts' = [runCounts EXCEPT ![exec[c].workflowId] = @ + 1]
          /\ exec' = [exec EXCEPT ![c] =
                [Log(@, <<"runCount.ok", "apiCalls">>) EXCEPT !.pc = "apiCalls"]]
    /\ UNCHANGED <<runningExecutions, totalApiCalls>>

\* lines 279-299: the userStats update returns or throws
ApiCallsReturn(c) ==
    /\ exec[c].pc = "apiCalls"
    /\ \/ /\ exec' = [exec EXCEPT ![c] = Catch(@, Error(<<"user stats update failed">>), "apiCalls.fault")]
          /\ UNCHANGED totalApiCalls
       \/ /\ totalApiCalls' = [totalApiCalls EXCEPT ![UserOf(exec[c].workflowId)] = @ + 1]
          /\ exec' = [exec EXCEPT ![c] =
                [Log(@, <<"apiCalls.ok", "buildTraceSpans", "persistLogs">>) EXCEPT
                    !.pc = "persistLogs"]]
    /\ UNCHANGED <<runningExecutions, runCounts>>

\* a variant that returns the result although persistExecutionLogs threw
PersistLogsReturnSwallow(c) ==
    /\ exec[c].pc = "persistLogs"
    /\ \E event \in {"persistLogs.ok", "persistLogs.fault"} :
        exec' = [exec EXCEPT ![c] =
            [Log(@, <<event, "delete">>) EXCEPT
                !.pc = "done",
                !.outcome = Returned(Has(exec[c], "execute.success"))]]
    /\ runningExecutions' = Finally(KeyOf(exec[c]), runningExecutions)
    /\ UNCHANGED <<runCounts, totalApiCalls>>

\* lines 299-301 and 307-309: persistExecutionLogs returns (return, finally)
\* or throws (catch)
PersistLogsReturn(c) ==
    /\ exec[c].pc = "persistLogs"
    /\ \/ /\ exec' = [exec EXCEPT ![c] = Catch(@, Error(<<"persistExecutionLogs failed">>), "persistLogs.fault")]
          /\ UNCHANGED runningExecutions
       \/ /\ exec' = [exec EXCEPT ![c] =
                [Log(@, <<"persistLogs.ok", "delete">>) EXCEPT
                    !.pc = "done",
                    !.outcome = Returned(Has(exec[c], "execute.success"))]]
          /\ runningExecutions' = Finally(KeyOf(exec[c]), runningExecutions)
    /\ UNCHANGED <<runCounts, totalApiCalls>>

\* lines 305-309: persistExecutionError returns (throw error, finally) or
\* throws (its own error leaves the catch block, finally)
CatchReturn(c) ==
    /\ exec[c].pc = "catch"
    /\ \/ exec' = [exec EXCEPT ![c] =
            [Log(@, <<"persistError.ok", "delete">>) EXCEPT
                !.pc = "done", !.outcome = Threw(exec[c].caught)]]
       \/ exec' = [exec EXCEPT ![c] =
            [Log(@, <<"persistError.fault", "delete">>) EXCEPT
                !.pc = "done",
                !.outcome = Threw(Error(<<"persistExecutionError failed">>))]]
    /\ runningExecutions' = Finally(KeyOf(exec[c]), runningExecutions)
    /\ UNCHANGED <<runCounts, totalApiCalls>>

Step(c, inp) ==
    \/ UsageReturn(c)
    \/ LoadReturn(c, inp)
    \/ EnvReturn(c, inp)
    \/ ResolveStep(c, inp)
    \/ DecryptAllStep(c, inp)
    \/ ExecuteReturn(c)
    \/ RunCountReturn(c)
    \/ ApiCallsReturn(c)
    \/ PersistLogsReturn(c)
    \/ CatchReturn(c)

Next == \E c \in Calls : Start(c, Inputs) \/ Step(c, Inputs)

Spec == Init /\ [][Next]_vars

\* the same actions over a smaller set of inputs, with the scheduling of the
\* event loop: a call whose awaited promise has settled is eventually resumed
LiveInputs ==
    [workflowIds |-> {<<"w", "1">>},
     requestIds |-> RequestIds,
     blockSets |-> {TemplatedBlocks},
     varSets |-> {Vars("encX", "encY")},
     workflowVariables |-> {NoVariables}]

FairNext == \E c \in Calls : Start(c, LiveInputs) \/ Step(c, LiveInputs)

FairSpec == Init /\ [][FairNext]_vars /\ \A c \in Calls : WF_vars(Step(c, LiveInputs))

----------------------------------------------------------------------------
(* The HTTP boundary: the catch blocks of GET and POST *)

\* createErrorResponse(error.message, error.statusCode, 'USAGE_LIMIT_EXCEEDED')
\* for a UsageLimitError, else createErrorResponse(..., 500, 'EXECUTION_ERROR')
ErrorResponseNoInstanceCheck(error) ==
    [status |-> PaymentRequired, code |-> "USAGE_LIMIT_EXCEEDED"]

ErrorResponse(error) ==
    IF error.name = "UsageLimitError"
    THEN [status |-> error.statusCode, code |-> "USAGE_LIMIT_EXCEEDED"]
    ELSE [status |-> InternalError, code |-> "EXECUTION_ERROR"]

----------------------------------------------------------------------------
(* Vocabulary of the properties *)

Started(c) == exec[c].pc # "idle"

Done(c) == exec[c].pc = "done"

\* between the registry check (passed) and the final registry delete
InFlight(c) == exec[c].pc \notin {"idle", "done"}

Inserted(c) == Has(exec[c], "add")

SamePair(c, d) ==
    /\ Started(c) /\ Started(d)
    /\ exec[c].workflowId = exec[d].workflowId
    /\ exec[c].requestId = exec[d].requestId

Failed(c) == Done(c) /\ exec[c].outcome.kind = "threw"

Succeeded(c) == Done(c) /\ exec[c].outcome.kind = "returned"

AlreadyRunning(c) ==
    Failed(c) /\ exec[c].outcome.error.message = <<"Execution is already running">>

\* the steps after admission never performed by a call
NoWorkDone(s) ==
    Events(s) \cap {"add", "load", "env", "decrypt", "execute", "runCount", "apiCalls",
                    "runCount.ok", "apiCalls.ok", "persistLogs"} = {}

\* the sub-blocks of every block, as <<block, sub-block>> positions
SubBlocksOf(mergedStates) ==
    UNION {{<<b, f>> : f \in 1..Len(mergedStates[b])} : b \in 1..Len(mergedStates)}

\* the placeholder occurrences of every sub-block of every block
Occurrences(mergedStates) ==
    UNION {{<<p[1], p[2], i>> : i \in 1..Len(Matches(mergedStates[p[1]][p[2]]))} :
              p \in SubBlocksOf(mergedStates)}

PlaceholderNames(mergedStates) ==
    {VarName(Matches(mergedStates[o[1]][o[2]])[o[3]]) : o \in Occurrences(mergedStates)}

\* the placeholder names a variable set cannot resolve
UnresolvableNames(s) ==
    {n \in PlaceholderNames(s.mergedStates) :
        NotFound(s.variables[n]) \/ ~decryptSecret(s.variables[n]).ok}

----------------------------------------------------------------------------
(* C1 *)

\* C1: for calls sharing one (workflowId, requestId), at most one at a time is
\* between its passed registry check and its final registry delete.
C1_AdmissionMutuallyExclusive ==
    \A c, d \in Calls : (c # d /\ SamePair(c, d)) => ~(InFlight(c) /\ InFlight(d))

(* C2 *)

\* C2: a call that inserted its key runs runningExecutions.delete exactly once,
\* on whatever path it completes, never before; in the state right after it
\* completes the key is absent from the registry (an identical request issued
\* then passes the registry check).
C2_ReleasedOnEveryExit ==
    [][\A c \in Calls :
        /\ (~Done(c) => Count(exec[c], "delete") = 0)
        /\ (~Done(c) /\ exec'[c].pc = "done" /\ Inserted(c)) =>
              /\ Count(exec'[c], "delete") = 1
              /\ KeyOf(exec[c]) \notin runningExecutions']_vars

\* a call failed inside the failure-path persistence and ran its delete; an
\* identical request was admitted and now holds the key
C2_Witness ==
    \E c, d \in Calls :
        /\ c # d /\ SamePair(c, d)
        /\ Failed(c) /\ Inserted(c) /\ Has(exec[c], "persistError.fault")
        /\ Count(exec[c], "delete") = 1
        /\ InFlight(d) /\ Inserted(d)
        /\ KeyOf(exec[d]) \in runningExecutions

(* C3 *)

\* C3: under fair scheduling of resumed calls every started call terminates
\* and every key in the registry is eventually removed.
C3_EventuallyReleased ==
    /\ \A c \in Calls : Started(c) ~> Done(c)
    /\ \A c \in Calls :
          (Inserted(c) /\ KeyOf(exec[c]) \in runningExecutions)
              ~> (KeyOf(exec[c]) \notin runningExecutions)

\* every call has run to its end, one of them after inserting its key, and the
\* registry is empty
C3_Witness ==
    /\ \A c \in Calls : Done(c)
    /\ \E c \in Calls : Inserted(c)
    /\ runningExecutions = {}

(* C4 *)

PairwiseDistinct == \A c, d \in Calls : c # d => ~SamePair(c, d)

\* C4: while the started calls have pairwise different (workflowId, requestId),
\* none has failed with 'Execution is already running' and every unfinished
\* call can take its next step whatever the other calls are doing.
C4_DistinctKeysIndependent ==
    PairwiseDistinct =>
        \A c \in Calls :
            /\ ~AlreadyRunning(c)
            /\ InFlight(c) => ENABLED Step(c, Inputs)

\* two calls of one workflow with different request ids hold their keys at once
C4_Witness ==
    \E c, d \in Calls :
        /\ c # d
        /\ exec[c].workflowId = exec[d].workflowId
        /\ exec[c].requestId # exec[d].requestId
        /\ InFlight(c) /\ InFlight(d) /\ Inserted(c) /\ Inserted(d)
        /\ {KeyOf(exec[c]), KeyOf(exec[d])} \subseteq runningExecutions

(* C5 *)

\* C5: a call whose usage lookup returned isExceeded = true has failed with a
\* UsageLimitError that the boundary answers with 402 USAGE_LIMIT_EXCEEDED, and
\* has neither inserted its key nor loaded, decrypted, executed or counted.
C5_UsageExceededFailsFirst ==
    \A c \in Calls :
        Has(exec[c], "usage.exceeded") =>
            /\ Failed(c)
            /\ exec[c].outcome.error.name = "UsageLimitError"
            /\ ErrorResponse(exec[c].outcome.error) =
                  [status |-> PaymentRequired, code |-> "USAGE_LIMIT_EXCEEDED"]
            /\ NoWorkDone(exec[c])
            /\ ~exec[c].engineInput.invoked

C5_Witness ==
    \E c \in Calls : Has(exec[c], "usage.exceeded") /\ Failed(c)

(* C6 *)

\* C6: a finished call has incremented both counters exactly once if it
\* returned a result with success = true, and neither counter otherwise.
C6_CountersMatchOutcome ==
    \A c \in Calls :
        Done(c) =>
            IF Succeeded(c) /\ exec[c].outcome.success
            THEN Count(exec[c], "runCount.ok") = 1 /\ Count(exec[c], "apiCalls.ok") = 1
            ELSE Count(exec[c], "runCount.ok") = 0 /\ Count(exec[c], "apiCalls.ok") = 0

(* C7 *)

\* C7 as stated: every failure other than AlreadyRunning has invoked
\* persistExecutionError before the error reached the caller.
C7_FailurePathForAllButAlreadyRunning ==
    \A c \in Calls : (Failed(c) /\ ~AlreadyRunning(c)) => Has(exec[c], "persistError")

\* C7 as amended: a failed call has invoked persistExecutionError, once and
\* before its error reached the caller, exactly if the failure was raised after
\* the key was inserted; AlreadyRunning, UsageLimitExceeded and a fault of the
\* usage lookup do not invoke it.
C7_FailurePathAfterInsertion ==
    \A c \in Calls :
        Failed(c) =>
            /\ Inserted(c) => Count(exec[c], "persistError") = 1
            /\ ~Inserted(c) => Count(exec[c], "persistError") = 0
            /\ Inserted(c) <=>
                  exec[c].outcome.error.message \notin
                      {<<"Execution is already running">>, <<"Usage limit exceeded">>,
                       <<"usage lookup failed">>}

\* a missing definition was reported to the failure path
C7_Witness ==
    \E c \in Calls :
        /\ Failed(c)
        /\ exec[c].outcome.error.message = <<"no deployed state and no normalized data">>
        /\ Has(exec[c], "persistError")

(* C8 *)

\* C8: the error a failed call propagates is the error caught by the catch
\* block.
C8_ErrorPropagatedUnchanged ==
    \A c \in Calls :
        (Failed(c) /\ exec[c].caught # NoError) => exec[c].outcome.error = exec[c].caught

(* C9 *)

\* C9: a call that returned a result invoked persistExecutionLogs, saw it
\* complete, and only then ran its registry delete; it never invoked
\* persistExecutionError.
C9_LogsPersistedBeforeRelease ==
    \A c \in Calls :
        Succeeded(c) =>
            /\ 0 < First(exec[c], "persistLogs")
            /\ First(exec[c], "persistLogs") < First(exec[c], "persistLogs.ok")
            /\ First(exec[c], "persistLogs.ok") < First(exec[c], "delete")
            /\ ~Has(exec[c], "persistError")

C9_Witness ==
    \E c \in Calls : Succeeded(c) /\ exec[c].outcome.success /\ Has(exec[c], "persistLogs.ok")

(* C10 *)

\* C10: once the environment record is read, a call with a placeholder whose
\* variable is absent or undecryptable never invokes the engine and increments
\* no counter, and it fails with an error naming such a variable; a call that
\* invoked the engine had every placeholder occurrence of every sub-block
\* looked up, decrypted and replaced before.
C10_ResolutionAllOrNothing ==
    \A c \in Calls :
        LET s == exec[c] IN
        /\ (Has(s, "env.ok") /\ UnresolvableNames(s) # {}) =>
              /\ ~s.engineInput.invoked
              /\ ~Has(s, "execute")
              /\ Count(s, "runCount.ok") = 0 /\ Count(s, "apiCalls.ok") = 0
              /\ Done(c) =>
                    /\ Failed(c)
                    /\ Len(s.caught.message) = 2
                    /\ s.caught.message[2] \in UnresolvableNames(s)
        /\ s.engineInput.invoked =>
              /\ UnresolvableNames(s) = {}
              /\ Count(s, "replace") = Cardinality(Occurrences(s.mergedStates))
              /\ \A i \in 1..Len(s.trace) :
                    s.trace[i] \in {"replace", "decrypt"} => i < First(s, "execute")
              /\ Len(s.engineInput.blockStates) = Len(s.mergedStates)

\* the first placeholder was replaced, the second names no variable: the
\* request failed naming it
C10_Witness ==
    \E c \in Calls :
        /\ Failed(c)
        /\ exec[c].mergedStates = TemplatedBlocks
        /\ exec[c].caught.message = <<"Environment variable was not found", "B">>
        /\ Count(exec[c], "replace") = 1

----------------------------------------------------------------------------
(* One request at a time over a wider set of block values and variables *)

SingleInputs ==
    [workflowIds |-> {<<"w", "1">>},
     requestIds |-> {RequestId("a")},
     blockSets |-> {PlainBlocks, TemplatedBlocks,
                    << <<Str(<<"{{A}}", "{{A}}">>)>> >>,
                    << <<Str(<<"{{B}}", "or", "{{A}}">>), NonString>> >>},
     varSets |-> {Vars(a, b) : a \in {"encX", "encRefB", "encAmp", Undefined},
                               b \in {"encY", "bad", Undefined}},
     workflowVariables |-> {NoVariables, ObjectVariables, StringVariables("{oops"),
                            StringVariables("{\"k\":1}"), StringVariables(""),
                            StringVariables("null")}]

SingleNext ==
    \E c \in {1} : Start(c, SingleInputs) \/ Step(c, SingleInputs)

SingleSpec == Init /\ [][SingleNext]_vars

\* the reference: every placeholder, left to right, gives way to the plaintext
\* of its variable; inserted plaintext is neither scanned nor altered
RECURSIVE ReferenceToks(_, _)
ReferenceToks(toks, variables) ==
    IF toks = <<>> THEN <<>>
    ELSE (IF IsPlaceholder(Head(toks))
          THEN Plaintext(variables[VarName(Head(toks))])
          ELSE <<Head(toks)>>) \o ReferenceToks(Tail(toks), variables)

Reference(value, variables) ==
    IF value.isString THEN Str(ReferenceToks(value.toks, variables)) ELSE value

(* C11 *)

\* C11: the block states handed to the engine are the loaded block states with
\* every sub-block value replaced by its reference substitution (non-string
\* values unchanged), and a request with a placeholder whose variable is
\* absent fails with an error naming such a variable.
C11_SubstitutionIsReference ==
    \A c \in Calls :
        LET s == exec[c] IN
        /\ s.engineInput.invoked =>
              \A p \in SubBlocksOf(s.mergedStates) :
                  s.engineInput.blockStates[p[1]][p[2]] =
                      Reference(s.mergedStates[p[1]][p[2]], s.variables)
        /\ (Done(c) /\ Has(s, "env.ok") /\ UnresolvableNames(s) # {}) =>
              /\ Len(s.caught.message) = 2
              /\ s.caught.message[2] \in UnresolvableNames(s)

----------------------------------------------------------------------------
\* a workflow.variables string on which JSON.parse throws
Malformed(raw) == raw.kind = "string" /\ raw.text # "" /\ ~JSONParse(raw.text).ok

\* the try block got past the environment record, every placeholder and
\* every stored variable: nothing but the workflow variables is left before
\* the engine is constructed
ResolutionSucceeded(s) ==
    /\ Has(s, "env.ok")
    /\ s.pc \notin {"env", "resolve", "envvars"}
    /\ ~Has(s, "resolve.notFound")
    /\ ~Has(s, "decrypt.fault")

\* C12: malformed workflow variables are not fatal.  Whenever the engine was
\* invoked for a call whose workflow.variables is a string that JSON.parse
\* rejects, the workflow variables handed to the engine are the empty
\* mapping; and every call whose resolution succeeded has invoked the
\* engine, whatever its workflow.variables were, so the only errors its catch
\* block can have received are those of the engine and of the later steps.
C12_MalformedVariablesNonFatal ==
    \A c \in Calls : LET s == exec[c] IN
      /\ (s.engineInput.invoked /\ Malformed(s.engineInput.rawVariables)) =>
            s.engineInput.workflowVariables = Mapping({})
      /\ ResolutionSucceeded(s) =>
            /\ s.engineInput.invoked
            /\ Count(s, "execute") = 1
            /\ s.caught # NoError =>
                    \E e \in {"execute.fault", "runCount.fault", "apiCalls.fault",
                               "persistLogs.fault"} : Has(s, e)

C12_Witness ==
    \E c \in Calls : LET s == exec[c] IN
      /\ s.engineInput.invoked
      /\ Malformed(s.engineInput.rawVariables)
      /\ s.engineInput.workflowVariables = Mapping({})
      /\ s.outcome = Returned(TRUE)

----------------------------------------------------------------------------
\* the load returned nothing and the workflow has no deployed state
NoDefinition(s) ==
    /\ Has(s, "load") /\ s.pc # "load"
    /\ ~Has(s, "load.fault") /\ ~Has(s, "load.normalized")
    /\ ~s.deployedState.present

\* C13: a call that finds neither normalized data nor a deployed state fails
\* before any resolution work: it makes no environment fetch, no decryption
\* call and no engine invocation, its catch block receives the missing
\* definition error and invokes persistExecutionError once, and once the
\* call is over its key is out of the registry (unless another call of the
\* same pair holds it).  A call that finds no normalized data but a
\* deployed state goes on to the environment fetch with the blocks of that
\* deployed state.
C13_MissingDefinitionFailsEarly ==
    \A c \in Calls : LET s == exec[c] IN
      /\ NoDefinition(s) =>
            /\ Has(s, "load.none")
            /\ \A e \in {"env", "decrypt", "replace", "execute", "runCount",
                          "apiCalls", "persistLogs"} : ~Has(s, e)
            /\ ~s.engineInput.invoked
            /\ Count(s, "persistError") = 1
            /\ s.caught = Error(<<"no deployed state and no normalized data">>)
            /\ s.pc \in {"catch", "done"}
            /\ Done(c) =>
                  /\ Failed(c)
                  /\ Count(s, "delete") = 1
                  /\ (\A d \in Calls \ {c} : ~(SamePair(c, d) /\ InFlight(d) /\ Inserted(d)))
                        => KeyOf(s) \notin runningExecutions
      /\ Has(s, "load.deployed") =>
            /\ s.deployedState.present
            /\ s.mergedStates = s.deployedState.blocks
            /\ Has(s, "env")
            /\ ~Has(s, "load.none")
            /\ s.caught # Error(<<"no deployed state and no normalized data">>)

C13_Witness ==
    \E c, d \in Calls :
      /\ NoDefinition(exec[c]) /\ Done(c) /\ Failed(c)
      /\ KeyOf(exec[c]) \notin runningExecutions
      /\ Has(exec[d], "load.deployed") /\ exec[d].engineInput.invoked
      /\ exec[d].engineInput.blockStates = exec[d].deployedState.blocks

----------------------------------------------------------------------------
\* C14 (as stated): a call rejected because its key is already in the
\* registry is answered with a status and code other than the generic
\* execution failure (500, EXECUTION_ERROR).
C14_AlreadyRunningIsConflict ==
    \A c \in Calls :
        AlreadyRunning(c) =>
            ErrorResponse(exec[c].outcome.error) #
                [status |-> InternalError, code |-> "EXECUTION_ERROR"]

\* C14 (amended): a call rejected because its key is already in the registry
\* throws a plain Error, which the boundary answers as the generic execution
\* failure (500, EXECUTION_ERROR); only the message tells it apart.
C14_AlreadyRunningIsGenericFailure ==
    \A c \in Calls :
        Has(exec[c], "has.running") =>
            /\ AlreadyRunning(c)
            /\ exec[c].outcome.error = Error(<<"Execution is already running">>)
            /\ exec[c].outcome.error.name # "UsageLimitError"
            /\ ErrorResponse(exec[c].outcome.error) =
                  [status |-> InternalError, code |-> "EXECUTION_ERROR"]

C14_Witness ==
    \E c, d \in Calls :
      /\ c # d /\ SamePair(c, d)
      /\ Has(exec[c], "has.running") /\ AlreadyRunning(c)
      /\ Inserted(d) /\ InFlight(d)

----------------------------------------------------------------------------
\* C15: a rejection with 'Execution is already running' has no effect.  The
\* step that rejects a call is the call's first one (it was idle, so it
\* never waited), it leaves the registry, the counters and every other call
\* as they were, the key it asked for is still held afterwards, and all the
\* call has done is the registry check: no usage lookup, insertion, load,
\* environment fetch, decryption, engine call, counter update or
\* persistence, neither of logs nor of the error.  Nothing happens to the
\* call after that step.
C15_RejectionHasNoEffect ==
    [][\A c \in Calls :
        /\ (~Has(exec[c], "has.running") /\ Has(exec[c], "has.running")') =>
              /\ exec[c].pc = "idle"
              /\ exec[c].trace = <<>>
              /\ AlreadyRunning(c)'
              /\ exec'[c].trace = <<"has", "has.running">>
              /\ exec'[c] = [IdleExec EXCEPT !.workflowId = exec'[c].workflowId,
                                             !.requestId = exec'[c].requestId,
                                             !.pc = "done",
                                             !.outcome = exec'[c].outcome,
                                             !.trace = exec'[c].trace]
              /\ runningExecutions' = runningExecutions
              /\ KeyOf(exec'[c]) \in runningExecutions'
              /\ runCounts' = runCounts
              /\ totalApiCalls' = totalApiCalls
              /\ \A d \in Calls \ {c} : exec'[d] = exec[d]
        /\ Has(exec[c], "has.running") => exec'[c] = exec[c]
     ]_vars

C15_Witness ==
    \E c, d \in Calls :
      /\ c # d
      /\ exec[c].trace = <<"has", "has.running">>
      /\ KeyOf(exec[c]) = KeyOf(exec[d])
      /\ KeyOf(exec[d]) \in runningExecutions
      /\ exec[d].pc = "execute"

----------------------------------------------------------------------------
\* C16: the engine is invoked at most once per call.  No call has invoked
\* executor.execute twice; and once the engine has thrown, the call's catch
\* block has received exactly that fault, the engine has been invoked
\* exactly once, none of the steps after the engine has run, and when the
\* call is over it has thrown.
C16_EngineInvokedAtMostOnce ==
    \A c \in Calls : LET s == exec[c] IN
      /\ Count(s, "execute") <= 1
      /\ s.engineInput.invoked <=> Count(s, "execute") = 1
      /\ Has(s, "execute.fault") =>
            /\ Count(s, "execute") = 1
            /\ Count(s, "execute.fault") = 1
            /\ s.pc \in {"catch", "done"}
            /\ s.caught = Error(<<"engine fault">>)
            /\ \A e \in {"execute.success", "execute.failure", "runCount",
                          "apiCalls", "persistLogs"} : ~Has(s, e)
            /\ Done(c) => Failed(c)

C16_Witness ==
    \E c \in Calls : LET s == exec[c] IN
      /\ Has(s, "execute.fault")
      /\ Failed(c)
      /\ s.outcome.error = Error(<<"engine fault">>)
      /\ Count(s, "execute") = 1

----------------------------------------------------------------------------
\* the events of a call on its way to Done, in the order of the steps:
\* Admitted (has .. add), Loaded (load ..), Resolved (env .. decrypt/replace),
\* Executing (execute ..), Enriching (runCount .. buildTraceSpans),
\* Persisted (persistLogs ..), Done (delete)
StepOrder ==
    << {"has"}, {"usage"}, {"usage.ok"}, {"add"},
       {"load"}, {"load.normalized", "load.deployed"},
       {"env"}, {"env.ok"}, {"decrypt", "replace"},
       {"execute"}, {"execute.success", "execute.failure"},
       {"runCount"}, {"runCount.ok"}, {"apiCalls"}, {"apiCalls.ok"}, {"buildTraceSpans"},
       {"persistLogs"}, {"persistLogs.ok"},
       {"delete"} >>

StepEvents == UNION {StepOrder[i] : i \in DOMAIN StepOrder}

Rank(event) == CHOOSE i \in DOMAIN StepOrder : event \in StepOrder[i]

\* the events that may occur more than once (one per decryptSecret call)
Repeatable == {"decrypt", "replace"}

\* the events only a successful engine result brings (the counters)
OnSuccessOnly == {"runCount", "runCount.ok", "apiCalls", "apiCalls.ok"}

\* C17: within one call the steps occur strictly in the order of StepOrder.
\* Of any two step events in a call's history the earlier one has the lower
\* rank (the same rank only among the decryptions of the Resolved step), so
\* no step starts before its predecessor has completed; once an event
\* outside StepOrder (a fault or a rejection) has occurred, no step event
\* but the release follows; a call that returned went through every step,
\* skipping none (the counters being those of a successful engine result,
\* and the decryptions being exactly one per placeholder occurrence and one
\* per stored variable, none where there are none); and a call that is over
\* has either returned or thrown.
C17_StepsInOrder ==
    \A c \in Calls : LET s == exec[c] IN
      /\ \A i, j \in DOMAIN s.trace :
            (i < j /\ s.trace[i] \in StepEvents /\ s.trace[j] \in StepEvents) =>
                \/ Rank(s.trace[i]) < Rank(s.trace[j])
                \/ /\ Rank(s.trace[i]) = Rank(s.trace[j])
                   /\ s.trace[i] \in Repeatable
      /\ \A i, j \in DOMAIN s.trace :
            (i < j /\ s.trace[i] \notin StepEvents) =>
                (s.trace[j] \in StepEvents => s.trace[j] = "delete")
      /\ Succeeded(c) =>
            /\ \A k \in DOMAIN StepOrder :
                   \/ \E e \in StepOrder[k] : Has(s, e)
                   \/ StepOrder[k] \subseteq OnSuccessOnly /\ ~Has(s, "execute.success")
                   \/ StepOrder[k] = Repeatable
            /\ Events(s) \subseteq StepEvents
            /\ Count(s, "decrypt") =
                   Cardinality(Occurrences(s.mergedStates)) + Len(EnvEntries(s.variables))
            /\ Count(s, "replace") = Cardinality(Occurrences(s.mergedStates))
            /\ s.trace[Len(s.trace)] = "delete"
      /\ Done(c) => (Succeeded(c) \/ Failed(c))
      /\ (Failed(c) /\ Inserted(c)) => s.trace[Len(s.trace)] = "delete"

C17_Witness ==
    \E c \in Calls : LET s == exec[c] IN
      /\ Succeeded(c)
      /\ Has(s, "execute.success")
      /\ Has(s, "replace")
      /\ Has(s, "apiCalls.ok")

----------------------------------------------------------------------------
\* C18: a running execution always holds its key.  Every call that has
\* inserted its key and has not yet run its own final delete has its key in
\* runningExecutions.
C18_RunningHoldsKey ==
    \A c \in Calls :
        (Inserted(c) /\ InFlight(c)) => KeyOf(exec[c]) \in runningExecutions

----------------------------------------------------------------------------
\* the calls that have inserted the key and not yet run their final delete
Holders(key) ==
    {c \in Calls : Inserted(c) /\ InFlight(c) /\ KeyOf(exec[c]) = key}

\* C19: the registry never holds a stale key.  In every state every key of
\* runningExecutions has a holder, a call that inserted it and has not yet
\* run its final delete, so the registry is empty whenever no call is in
\* flight; and every step that rejects a call with 'Execution is already
\* running' is taken while another call holds the key the rejected call
\* asked for.
C19_NoStaleKey ==
    /\ [](/\ \A key \in runningExecutions : Holders(key) # {}
          /\ (\A c \in Calls : ~InFlight(c)) => runningExecutions = {})
    /\ [][\A c \in Calls :
            (~Has(exec[c], "has.running") /\ Has(exec'[c], "has.running")) =>
                Holders(KeyOf(exec'[c])) \ {c} # {}]_vars

C19_Witness ==
    \E c, d \in Calls :
      /\ c # d
      /\ AlreadyRunning(c)
      /\ Inserted(d) /\ Done(d) /\ KeyOf(exec[d]) = KeyOf(exec[c])
      /\ runningExecutions = {}

----------------------------------------------------------------------------
\* the names of the variables record of the owner
StoredNames(s) == {n \in Names : s.variables[n] # Undefined}

\* C20: the engine is invoked only if every stored variable decrypts,
\* referenced by a block field or not.  The decrypted variables handed to
\* the engine have exactly the names of the stored variables, each with the
\* plaintext of its ciphertext; and once a decryption has failed, the
\* engine has not been invoked and the catch block has received the error
\* naming a stored variable that does not decrypt.
C20_AllStoredVariablesDecrypt ==
    \A c \in Calls : LET s == exec[c] IN
      /\ s.engineInput.invoked =>
            /\ \A n \in StoredNames(s) : decryptSecret(s.variables[n]).ok
            /\ {s.engineInput.envVars[i].key : i \in DOMAIN s.engineInput.envVars}
                  = StoredNames(s)
            /\ Len(s.engineInput.envVars) = Cardinality(StoredNames(s))
            /\ \A i \in DOMAIN s.engineInput.envVars :
                  s.engineInput.envVars[i].value =
                      decryptSecret(s.variables[s.engineInput.envVars[i].key]).decrypted
      /\ Has(s, "decrypt.fault") =>
            /\ ~s.engineInput.invoked
            /\ ~Has(s, "execute")
            /\ s.pc \in {"catch", "done"}
            /\ Len(s.caught.message) = 2
            /\ s.caught.message[1] = "Failed to decrypt environment variable"
            /\ s.caught.message[2] \in StoredNames(s)
            /\ ~decryptSecret(s.variables[s.caught.message[2]]).ok
            /\ Done(c) => Failed(c)

\* the variable that fails to decrypt is referenced by no block field
C20_Witness ==
    \E c \in Calls : LET s == exec[c] IN
      /\ Has(s, "decrypt.fault")
      /\ PlaceholderNames(s.mergedStates) = {}
      /\ s.caught = Error(<<"Failed to decrypt environment variable", "B">>)
      /\ Failed(c)
      /\ ~s.engineInput.invoked

====
